---- MODULE Spec2Model ----
(***************************************************************************)
(* A model of static_ptr<TypeT, MaxSize> (src/static_ptr.hpp): a slot that *)
(* owns one object of a class family inline, together with the life cycle  *)
(* manager (LCM) generated for the object's concrete type.                 *)
(*                                                                         *)
(* The program modelled is a single thread that owns a fixed set of slot   *)
(* variables and applies the public operations of static_ptr to them in    *)
(* any order.  Every action is one whole public operation; the primitive   *)
(* steps an operation performs are appended, in the order of the code, to  *)
(* log, which holds the steps of the most recent operation only.           *)
(***************************************************************************)
EXTENDS Integers, Sequences, FiniteSets, TLC

(***************************************************************************)
(* Bounds of the model.                                                    *)
(***************************************************************************)
\* The longest argument list handed to emplace<Te>() / make_static<T>().
MaxArgs == 2

\* The longest list of candidate types handed to maxsizeof<...>().
MaxTypes == 3

(***************************************************************************)
(* The class family of src/examples/experimental_usage.cpp.                *)
(***************************************************************************)
NoType == "none"

NoSlot == "noslot"

\* The classes that can be instantiated (Interface is abstract).
Concrete == {"Base1", "Base2", "duda"}

Types == Concrete \cup {"Interface"}

\* The direct base class of a class, NoType when it has none.
BaseOf(t) ==
    CASE t = "Base1" -> "Interface"
      [] t = "Base2" -> "Interface"
      [] OTHER -> NoType

\* std::is_base_of<b, d>::value: b is d or a (transitive) base of d.
RECURSIVE is_base_of(_, _)
is_base_of(b, d) ==
    IF d = NoType THEN FALSE
    ELSE IF b = d THEN TRUE
    ELSE is_base_of(b, BaseOf(d))

\* sizeof(t) under the LP64 ABI: a vptr plus the members.
sizeof(t) ==
    CASE t = "Interface" -> 8
      [] t = "Base1" -> 24
      [] t = "Base2" -> 40
      [] t = "duda" -> 256
      [] OTHER -> 0

(***************************************************************************)
(* The slot variables of the program and their static types.               *)
(***************************************************************************)
Slots == {"ptr1", "ptr2", "big_ptr", "b1", "dudus"}

\* static_ptr<TypeT, MaxSize>::element_type of the variable s.
element_type(s) ==
    CASE s = "b1" -> "Base1"
      [] s = "dudus" -> "duda"
      [] OTHER -> "Interface"

\* static_ptr<TypeT, MaxSize>::element_max_size of the variable s.
element_max_size(s) ==
    CASE s = "ptr1" -> 40
      [] s = "ptr2" -> 40
      [] s = "big_ptr" -> 80
      [] s = "b1" -> 24
      [] s = "dudus" -> 100
      [] OTHER -> 0

\* Two variables are instances of absolutely the same variant of static_ptr.
SameVariant(d, rhs) ==
    /\ element_type(d) = element_type(rhs)
    /\ element_max_size(d) = element_max_size(rhs)

(***************************************************************************)
(* Values handed to constructors.  A tuple element is a typed value: the   *)
(* arguments are ints, the element make_static puts first is a null        *)
(* pointer whose type T* names the class to build.                         *)
(***************************************************************************)
Arg(n) == [ty |-> "int", v |-> n]

NullPtrOf(t) == [ty |-> t, v |-> 0]

\* The argument lists tried: <<1>>, <<1, 2>>, ... and the empty one.  The values
\* of a list differ, so that a dropped, added or reordered argument shows.
ArgLists == {[k \in 1..n |-> Arg(k)] : n \in 0..MaxArgs}

(***************************************************************************)
(* State.                                                                  *)
(***************************************************************************)
VARIABLES
    alive,        \* alive[s]: the variable s is constructed and not yet destroyed
    is_empty,     \* static_ptr::is_empty
    storage_obj,  \* static_ptr::storage_obj: what the object buffer holds
    storage_lcm,  \* static_ptr::storage_lcm: the Te of the LCMe it holds
    nLive,        \* constructed minus destroyed objects (a counting test type)
    dtorTwice,    \* a destructor ran on a buffer that holds no live object
    crashed,      \* the program faulted on a write past storage_obj
    log,          \* the primitive steps of the most recent operation
    last          \* the most recent operation, its operands and its result

vars == <<alive, is_empty, storage_obj, storage_lcm, nLive, dtorTwice, crashed, log, last>>

\* An object buffer nothing was ever constructed in.
RawObj == [st |-> "raw", type |-> NoType, origin |-> NoType]

\* The state the operations transform.
Cur ==
    [alive |-> alive, is_empty |-> is_empty, storage_obj |-> storage_obj,
     storage_lcm |-> storage_lcm, nLive |-> nLive, dtorTwice |-> dtorTwice,
     crashed |-> crashed, log |-> log]

Commit(m, l) ==
    /\ alive' = m.alive
    /\ is_empty' = m.is_empty
    /\ storage_obj' = m.storage_obj
    /\ storage_lcm' = m.storage_lcm
    /\ nLive' = m.nLive
    /\ dtorTwice' = m.dtorTwice
    /\ crashed' = m.crashed
    /\ log' = m.log
    /\ last' = l

\* One primitive step in log.
Ev(e, s, via, t, a) == [ev |-> e, slot |-> s, via |-> via, type |-> t, args |-> a]

\* The record of an operation in last.
Op(o, d, rhs, te, a, prev, srcType, ret) ==
    [op |-> o, dst |-> d, src |-> rhs, te |-> te, args |-> a,
     prev |-> prev, srcType |-> srcType, ret |-> ret]

(***************************************************************************)
(* Primitive steps.  A faulted program takes no further step.              *)
(***************************************************************************)
\* A write to the is_empty flag of s.
set_is_empty(m, s, b) ==
    IF m.crashed THEN m
    ELSE [m EXCEPT !.is_empty[s] = b,
                   !.log = Append(@, Ev("is_empty", s, s, IF b THEN "true" ELSE "false", << >>))]

\* new (&storage_lcm) LCMe(): the LCM of the type Te is built in s.
new_lcm(m, s, Te) ==
    IF m.crashed THEN m
    ELSE [m EXCEPT !.storage_lcm[s] = Te,
                   !.log = Append(@, Ev("new_lcm", s, s, Te, << >>))]

\* A placement-new of a Te into the object buffer of s.  The code never
\* compares sizeof(Te) with element_max_size: an object that does not fit is
\* written past the end of storage_obj, which is undefined behaviour.  The
\* build either carries on with the object in place or faults (fault).
place_obj(m, s, Te, origin, fault, e) ==
    IF m.crashed THEN m
    ELSE IF sizeof(Te) > element_max_size(s) /\ fault
    THEN [m EXCEPT !.crashed = TRUE]
    ELSE [m EXCEPT !.storage_obj[s] = [st |-> "live", type |-> Te, origin |-> origin],
                   !.nLive = @ + 1,
                   !.log = Append(@, e)]

\* new (&storage_obj) Te(std::forward<Args>(args)...)
new_obj(m, s, Te, args, fault) ==
    place_obj(m, s, Te, Te, fault, Ev("ctor", s, s, Te, args))

\* The Te of the LCMe that get_lcm() of the slot via refers to.
get_lcm(m, via) == m.storage_lcm[via]

\* LCMe::clone_obj, called through the LCM of via: move-construct a Te in the
\* object buffer of d from the object in the buffer of src.
clone_obj_via_dst(m, via, d, src, fault) ==
    IF m.crashed THEN m
    ELSE IF get_lcm(m, d) = NoType THEN [m EXCEPT !.crashed = TRUE]
    ELSE place_obj(m, d, get_lcm(m, d), m.storage_obj[src].origin, fault,
                   Ev("clone_obj", d, d, get_lcm(m, d), << >>))

clone_obj(m, via, d, src, fault) ==
    IF m.crashed THEN m
    ELSE IF get_lcm(m, via) = NoType THEN [m EXCEPT !.crashed = TRUE]
    ELSE place_obj(m, d, get_lcm(m, via), m.storage_obj[src].origin, fault,
                   Ev("clone_obj", d, via, get_lcm(m, via), << >>))

\* LCMe::clone_lcm, called through the LCM of via: build an LCMe of the same
\* Te in the LCM buffer of d.
clone_lcm_skipped(m, via, d) == m

clone_lcm_via_dst(m, via, d) ==
    IF m.crashed THEN m
    ELSE IF get_lcm(m, d) = NoType THEN [m EXCEPT !.crashed = TRUE]
    ELSE [m EXCEPT !.log = Append(@, Ev("clone_lcm", d, d, get_lcm(m, d), << >>))]

clone_lcm(m, via, d) ==
    IF m.crashed THEN m
    ELSE IF get_lcm(m, via) = NoType THEN [m EXCEPT !.crashed = TRUE]
    ELSE [m EXCEPT !.storage_lcm[d] = get_lcm(m, via),
                   !.log = Append(@, Ev("clone_lcm", d, via, get_lcm(m, via), << >>))]

\* LCMe::delete_obj, called through the LCM of via: run ~Te() on the object
\* in the buffer of s.
delete_obj(m, via, s) ==
    IF m.crashed THEN m
    ELSE IF get_lcm(m, via) = NoType THEN [m EXCEPT !.crashed = TRUE]
    ELSE [m EXCEPT !.storage_obj[s].st = "dead",
                   !.nLive = IF m.storage_obj[s].st = "live" THEN @ - 1 ELSE @,
                   !.dtorTwice = @ \/ m.storage_obj[s].st # "live",
                   !.log = Append(@, Ev("delete_obj", s, via, get_lcm(m, via), << >>))]

(***************************************************************************)
(* The members of static_ptr.                                              *)
(***************************************************************************)
\* pointer get() const noexcept: NoSlot stands for nullptr, s for the address
\* of the object buffer of s.
get(m, s) == IF m.is_empty[s] THEN NoSlot ELSE s

\* operator-> followed by a virtual call: the class whose override runs.
dynamic_type(m, s) == m.storage_obj[s].type

\* template <class Te, class... Args> void _emplace(Args&&... args)
_emplace(m, s, Te, args, fault) ==
    set_is_empty(new_obj(new_lcm(m, s, Te), s, Te, args, fault), s, FALSE)

\* template <class Tf, size_t Sf> void _transfer_obj(static_ptr<Tf, Sf>&& rhs)
_transfer_obj_keep_rhs(m, d, rhs, fault) ==
    IF get(m, rhs) # NoSlot
    THEN LET m1 == clone_obj(m, rhs, d, rhs, fault)
             m2 == clone_lcm(m1, rhs, d)
         IN  set_is_empty(m2, d, FALSE)
    ELSE m

_transfer_obj_no_delete(m, d, rhs, fault) ==
    IF get(m, rhs) # NoSlot
    THEN LET m1 == clone_obj(m, rhs, d, rhs, fault)
             m2 == clone_lcm(m1, rhs, d)
             m3 == set_is_empty(m2, rhs, TRUE)
         IN  set_is_empty(m3, d, FALSE)
    ELSE m

_transfer_obj_delete_first(m, d, rhs, fault) ==
    IF get(m, rhs) # NoSlot
    THEN LET m1 == clone_obj(m, rhs, d, rhs, fault)
             m2 == clone_lcm(m1, rhs, d)
             m3 == delete_obj(m2, rhs, rhs)
             m4 == set_is_empty(m3, rhs, TRUE)
         IN  set_is_empty(m4, d, FALSE)
    ELSE m

_transfer_obj_unguarded(m, d, rhs, fault) ==
    LET m1 == clone_obj(m, rhs, d, rhs, fault)
        m2 == clone_lcm(m1, rhs, d)
        m3 == set_is_empty(m2, rhs, TRUE)
        m4 == delete_obj(m3, rhs, rhs)
    IN  set_is_empty(m4, d, FALSE)

_transfer_obj(m, d, rhs, fault) ==
    IF get(m, rhs) # NoSlot
    THEN LET m1 == clone_obj(m, rhs, d, rhs, fault)
             m2 == clone_lcm(m1, rhs, d)
             m3 == set_is_empty(m2, rhs, TRUE)
             m4 == delete_obj(m3, rhs, rhs)
         IN  set_is_empty(m4, d, FALSE)
    ELSE m

\* The members of a static_ptr whose constructor starts to run: is_empty has
\* the initializer true, the two buffers are left untouched.
fresh(m, s) ==
    [m EXCEPT !.alive[s] = TRUE, !.is_empty[s] = TRUE,
              !.storage_obj[s] = RawObj, !.storage_lcm[s] = NoType,
              !.log = << >>]

\* The storage of a destroyed variable is gone.
gone(m, s) ==
    IF m.crashed THEN m
    ELSE [m EXCEPT !.alive[s] = FALSE, !.is_empty[s] = TRUE,
                   !.storage_obj[s] = RawObj, !.storage_lcm[s] = NoType]

\* The static_asserts of the converting move constructor and of operator=.
Compatible_no_size(d, rhs) ==
    is_base_of(element_type(d), element_type(rhs))

Compatible(d, rhs) ==
    /\ element_max_size(d) >= element_max_size(rhs)
    /\ is_base_of(element_type(d), element_type(rhs))

\* The outcomes of the placement-new of a Te in s: it faults only when the
\* object is written past the end of the buffer.
Faults(s, Te) == IF sizeof(Te) > element_max_size(s) THEN BOOLEAN ELSE {FALSE}

\* The type of the object a slot owns, NoType for an empty slot.
Occupant(s) == IF alive[s] /\ ~is_empty[s] THEN storage_obj[s].type ELSE NoType

(***************************************************************************)
(* make_static and the constructor that consumes its tuple.                *)
(***************************************************************************)
\* make_static<T>(args...): std::forward_as_tuple(static_cast<T*>(nullptr), args...)
make_static(T, args) == <<NullPtrOf(T)>> \o args

\* std::get<i>(tup), i counted from 0.
std_get(i, tup) == tup[i + 1]

\* gens<N, S...>::type: gens<N, S...> derives from gens<N-1, N-1, S...> and
\* gens<1, S...> names seq<S...>.
RECURSIVE gens_from_zero(_, _)
gens_from_zero(N, S) ==
    IF N = 0 THEN S ELSE gens_from_zero(N - 1, <<N - 1>> \o S)

RECURSIVE gens(_, _)
gens(N, S) ==
    IF N = 1 THEN S ELSE gens(N - 1, <<N - 1>> \o S)

\* _make_obj<Type>(tup, seq<S...>): _emplace<Type>(std::get<S>(tup) ...)
_make_obj(m, s, Type, tup, S, fault) ==
    _emplace(m, s, Type, [k \in 1..Len(S) |-> std_get(S[k], tup)], fault)

(***************************************************************************)
(* The initial state: no slot variable has been constructed yet.           *)
(***************************************************************************)
Init ==
    /\ alive = [s \in Slots |-> FALSE]
    /\ is_empty = [s \in Slots |-> TRUE]
    /\ storage_obj = [s \in Slots |-> RawObj]
    /\ storage_lcm = [s \in Slots |-> NoType]
    /\ nLive = 0
    /\ dtorTwice = FALSE
    /\ crashed = FALSE
    /\ log = << >>
    /\ last = Op("start", NoSlot, NoSlot, NoType, << >>, NoType, NoType, "void")

(***************************************************************************)
(* The public operations, one action each.                                 *)
(***************************************************************************)
\* static_ptr() noexcept = default
DefaultCtor(s) ==
    /\ ~crashed
    /\ ~alive[s]
    /\ Commit(fresh(Cur, s),
              Op("default_ctor", s, NoSlot, NoType, << >>, NoType, NoType, "void"))

\* static_ptr(nullptr_t) noexcept : static_ptr()
NullptrCtor(s) ==
    /\ ~crashed
    /\ ~alive[s]
    /\ Commit(fresh(Cur, s),
              Op("nullptr_ctor", s, NoSlot, NoType, << >>, NoType, NoType, "void"))

\* static_ptr(static_ptr&& rhs): rhs is of absolutely the same variant.
MoveCtorSame(d, rhs) ==
    /\ ~crashed
    /\ ~alive[d]
    /\ alive[rhs]
    /\ SameVariant(d, rhs)
    /\ \E fault \in Faults(d, get_lcm(Cur, rhs)) :
          Commit(_transfer_obj(fresh(Cur, d), d, rhs, fault),
                 Op("move_ctor", d, rhs, NoType, << >>, NoType, Occupant(rhs), "void"))

\* template <class Tf, size_t Sf> static_ptr(static_ptr<Tf, Sf>&& rhs)
MoveCtor(d, rhs) ==
    /\ ~crashed
    /\ ~alive[d]
    /\ alive[rhs]
    /\ ~SameVariant(d, rhs)
    /\ Compatible(d, rhs)
    /\ \E fault \in Faults(d, get_lcm(Cur, rhs)) :
          Commit(_transfer_obj(fresh(Cur, d), d, rhs, fault),
                 Op("move_ctor", d, rhs, NoType, << >>, NoType, Occupant(rhs), "void"))

\* template <class T> static_ptr(T&& tup), given make_static<Type>(args...)
TupleCtor(d, Type, args) ==
    /\ ~crashed
    /\ ~alive[d]
    /\ is_base_of(element_type(d), Type)
    /\ LET tup == make_static(Type, args)
           tup_size == Len(tup)
       IN  \E fault \in Faults(d, Type) :
              Commit(_make_obj(fresh(Cur, d), d, tup[1].ty, tup, gens(tup_size, << >>), fault),
                     Op("tuple_ctor", d, NoSlot, Type, args, NoType, NoType, "void"))

\* template <class Tf, size_t Sf> static_ptr& operator=(static_ptr<Tf, Sf>&& rhs)
MoveAssign_no_release(d, rhs) ==
    /\ ~crashed
    /\ alive[d]
    /\ alive[rhs]
    /\ Compatible(d, rhs)
    /\ LET m0 == [Cur EXCEPT !.log = << >>]
       IN  \E fault \in Faults(d, get_lcm(Cur, rhs)) :
              Commit(_transfer_obj(m0, d, rhs, fault),
                     Op("move_assign", d, rhs, NoType, << >>, Occupant(d), Occupant(rhs), "void"))

MoveAssign_flag_kept(d, rhs) ==
    /\ ~crashed
    /\ alive[d]
    /\ alive[rhs]
    /\ Compatible(d, rhs)
    /\ LET m0 == [Cur EXCEPT !.log = << >>]
           this_obj_ptr == get(m0, d)
           m1 == IF this_obj_ptr # NoSlot THEN delete_obj(m0, d, d) ELSE m0
       IN  \E fault \in Faults(d, get_lcm(Cur, rhs)) :
              Commit(_transfer_obj(m1, d, rhs, fault),
                     Op("move_assign", d, rhs, NoType, << >>, Occupant(d), Occupant(rhs), "void"))

MoveAssign(d, rhs) ==
    /\ ~crashed
    /\ alive[d]
    /\ alive[rhs]
    /\ Compatible(d, rhs)
    /\ LET m0 == [Cur EXCEPT !.log = << >>]
           this_obj_ptr == get(m0, d)
           m1 == IF this_obj_ptr # NoSlot
                 THEN delete_obj(set_is_empty(m0, d, TRUE), d, d)
                 ELSE m0
       IN  \E fault \in Faults(d, get_lcm(Cur, rhs)) :
              Commit(_transfer_obj(m1, d, rhs, fault),
                     Op("move_assign", d, rhs, NoType, << >>, Occupant(d), Occupant(rhs), "void"))

\* ~static_ptr()
Dtor(s) ==
    /\ ~crashed
    /\ alive[s]
    /\ LET m0 == [Cur EXCEPT !.log = << >>]
           obj == get(m0, s)
           m1 == IF obj # NoSlot THEN delete_obj(m0, s, s) ELSE m0
       IN  Commit(gone(m1, s),
                  Op("dtor", s, NoSlot, NoType, << >>, Occupant(s), NoType, "void"))

\* template <class Te, class... Args> bool emplace(Args&&... args)
emplace_unguarded(m, s, Te, args, fault) == _emplace(m, s, Te, args, fault)

emplace(m, s, Te, args, fault) ==
    IF m.is_empty[s] THEN _emplace(m, s, Te, args, fault) ELSE m

Emplace_returns_before(s, Te, args) ==
    /\ ~crashed
    /\ alive[s]
    /\ is_base_of(element_type(s), Te)
    /\ LET m0 == [Cur EXCEPT !.log = << >>]
       IN  \E fault \in Faults(s, Te) :
              LET m1 == emplace(m0, s, Te, args, fault)
              IN  Commit(m1, Op("emplace", s, NoSlot, Te, args, Occupant(s), NoType,
                                IF m0.is_empty[s] THEN "true" ELSE "false"))

Emplace(s, Te, args) ==
    /\ ~crashed
    /\ alive[s]
    /\ is_base_of(element_type(s), Te)
    /\ LET m0 == [Cur EXCEPT !.log = << >>]
       IN  \E fault \in Faults(s, Te) :
              LET m1 == emplace(m0, s, Te, args, fault)
              IN  Commit(m1, Op("emplace", s, NoSlot, Te, args, Occupant(s), NoType,
                                IF m1.is_empty[s] THEN "true" ELSE "false"))

Next ==
    \/ \E s \in Slots : DefaultCtor(s)
    \/ \E s \in Slots : NullptrCtor(s)
    \/ \E d, rhs \in Slots : MoveCtorSame(d, rhs)
    \/ \E d, rhs \in Slots : MoveCtor(d, rhs)
    \/ \E d \in Slots, Type \in Concrete, args \in ArgLists : TupleCtor(d, Type, args)
    \/ \E d, rhs \in Slots : MoveAssign(d, rhs)
    \/ \E s \in Slots : Dtor(s)
    \/ \E s \in Slots, Te \in Concrete, args \in ArgLists : Emplace(s, Te, args)

Spec == Init /\ [][Next]_vars

(***************************************************************************)
(* maxsizeof, a pure compile-time function: a second program that is given *)
(* a list of candidate types and evaluates maxsizeof on it.                *)
(***************************************************************************)
\* The non-empty lists of template arguments tried.
TypeLists == UNION {[1..n -> Types] : n \in 1..MaxTypes}

\* template <class First> maxsizeof(): sizeof(First);
\* template <class First, class Second, class... Tail> maxsizeof():
\*   maxsizeof<First>() > maxsizeof<Second, Tail...>()
\*     ? maxsizeof<First>() : maxsizeof<Second, Tail...>()
RECURSIVE maxsizeof_min(_)
maxsizeof_min(types) ==
    IF Len(types) = 1 THEN sizeof(Head(types))
    ELSE IF sizeof(Head(types)) < maxsizeof_min(Tail(types))
         THEN sizeof(Head(types))
         ELSE maxsizeof_min(Tail(types))

RECURSIVE maxsizeof(_)
maxsizeof(types) ==
    IF Len(types) = 1 THEN sizeof(Head(types))
    ELSE IF maxsizeof(<<Head(types)>>) > maxsizeof(Tail(types))
         THEN maxsizeof(<<Head(types)>>)
         ELSE maxsizeof(Tail(types))

\* The program is about to evaluate maxsizeof<types...>().
InitMax ==
    /\ alive = [s \in Slots |-> FALSE]
    /\ is_empty = [s \in Slots |-> TRUE]
    /\ storage_obj = [s \in Slots |-> RawObj]
    /\ storage_lcm = [s \in Slots |-> NoType]
    /\ nLive = 0
    /\ dtorTwice = FALSE
    /\ crashed = FALSE
    /\ log = << >>
    /\ \E types \in TypeLists :
          last = Op("maxsizeof_call", NoSlot, NoSlot, NoType, types, NoType, NoType, "void")

\* maxsizeof<types...>() is evaluated; its value is kept in last.ret.
MaxsizeofCall ==
    /\ last.op = "maxsizeof_call"
    /\ last' = [last EXCEPT !.op = "maxsizeof", !.ret = maxsizeof(last.args)]
    /\ UNCHANGED <<alive, is_empty, storage_obj, storage_lcm, nLive, dtorTwice, crashed, log>>

NextMax == MaxsizeofCall

SpecMax == InitMax /\ [][NextMax]_vars

(***************************************************************************)
(* Properties.                                                             *)
(***************************************************************************)
MoveOps == {"move_ctor", "move_assign"}

\* The most recent operation moved an object from one slot into another one.
Transferred ==
    /\ last.op \in MoveOps
    /\ last.srcType # NoType
    /\ last.src # last.dst
    /\ ~crashed

\* The constructions, move-constructions and destructions of objects among
\* the steps of the most recent operation.
ObjectSteps == SelectSeq(log, LAMBDA e : e.ev \in {"ctor", "clone_obj", "delete_obj"})

\* C1: no destructor ever runs on a buffer that holds no live object, the
\* objects constructed and not yet destroyed are exactly those held by the
\* slots that exist, and so none is left once every slot has been destroyed.
C1_DestroyedExactlyOnce ==
    /\ ~dtorTwice
    /\ nLive = Cardinality({s \in Slots : alive[s] /\ storage_obj[s].st = "live"})
    /\ (\A s \in Slots : ~alive[s]) => nLive = 0

C1_Witness ==
    /\ last.op = "dtor"
    /\ last.prev # NoType
    /\ \A s \in Slots : ~alive[s]
    /\ nLive = 0

\* C2: after a move-construction or a move-assignment from an occupied slot a
\* into another slot b, a.get() is null and b.get() is not.
C2_TransferEmptiesSource ==
    Transferred => get(Cur, last.src) = NoSlot /\ get(Cur, last.dst) # NoSlot

C2_Witness ==
    /\ Transferred
    /\ last.op = "move_assign"
    /\ last.prev # NoType
    /\ is_empty[last.src]
    /\ ~is_empty[last.dst]

\* C3: the object a slot holds has the concrete type it was first constructed
\* with, however many transfers brought it there, and a transfer leaves in the
\* destination an object of the concrete type the source held.
C3_TransferPreservesType ==
    /\ \A s \in Slots : alive[s] /\ ~is_empty[s] =>
          dynamic_type(Cur, s) = storage_obj[s].origin
    /\ Transferred => dynamic_type(Cur, last.dst) = last.srcType

C3_Witness ==
    /\ Transferred
    /\ last.op = "move_ctor"
    /\ last.src = "b1"
    /\ last.dst = "big_ptr"
    /\ dynamic_type(Cur, "big_ptr") = "Base1"

\* C4: every occupied slot holds a live object and the LCM of that object's
\* concrete type.
C4_RecordMatchesObject ==
    \A s \in Slots : alive[s] /\ ~is_empty[s] =>
        /\ storage_obj[s].st = "live"
        /\ storage_obj[s].type \in Concrete
        /\ storage_lcm[s] = storage_obj[s].type

C4_Witness ==
    /\ Transferred
    /\ last.op = "move_assign"
    /\ last.prev # NoType
    /\ last.prev # last.srcType
    /\ storage_lcm[last.dst] = last.srcType

\* C5: every occupied slot holds an object that fits its capacity.
C5_FitsCapacity ==
    \A s \in Slots : alive[s] /\ ~is_empty[s] =>
        sizeof(storage_obj[s].type) <= element_max_size(s)

\* C6: a transfer is performed only into a slot whose capacity is at least the
\* source's and whose element type is the source's or a base of it.
C6_TransferOnlyCompatible ==
    last.op \in MoveOps =>
        /\ element_max_size(last.dst) >= element_max_size(last.src)
        /\ is_base_of(element_type(last.dst), element_type(last.src))

C6_Witness ==
    /\ Transferred
    /\ last.dst = "ptr1"
    /\ last.src = "b1"
    /\ element_max_size(last.dst) > element_max_size(last.src)
    /\ element_type(last.dst) # element_type(last.src)

\* C7: emplace on an occupied slot runs no constructor and no destructor and
\* changes nothing of any slot.
C7_EmplaceOccupiedNoOp ==
    [][(last'.op = "emplace" /\ ~is_empty[last'.dst]) =>
          /\ UNCHANGED <<alive, is_empty, storage_obj, storage_lcm, nLive, dtorTwice, crashed>>
          /\ log' = << >>]_vars

C7_Witness ==
    /\ last.op = "emplace"
    /\ last.prev # NoType
    /\ last.prev # last.te
    /\ log = << >>
    /\ dynamic_type(Cur, last.dst) = last.prev

\* C8: emplace returns true exactly when the slot holds an object afterwards.
C8_ReturnsOccupied ==
    (last.op = "emplace" /\ ~crashed) =>
        (last.ret = "true" <=> ~is_empty[last.dst])

\* C9: a slot is empty exactly when neither its object buffer nor its LCM
\* buffer holds a live object.
C9_EmptyIffNothingLive ==
    ~crashed =>
        \A s \in Slots : alive[s] =>
            (is_empty[s] <=> (storage_obj[s].st # "live" /\ storage_lcm[s] = NoType))

\* C10: a slot constructed from make_static<T>(args...) is occupied by a T
\* built by one in-place construction that received args, in order, and no
\* other object was constructed, moved or destroyed on the way.
C10_MakeStaticInPlace ==
    (last.op = "tuple_ctor" /\ ~crashed) =>
        /\ ~is_empty[last.dst]
        /\ dynamic_type(Cur, last.dst) = last.te
        /\ storage_lcm[last.dst] = last.te
        /\ ObjectSteps = <<Ev("ctor", last.dst, last.dst, last.te, last.args)>>

C10_Witness ==
    /\ last.op = "tuple_ctor"
    /\ ~crashed
    /\ last.te = "Base2"
    /\ Len(last.args) = MaxArgs
    /\ Len(ObjectSteps) = 1
    /\ ObjectSteps[1].args = <<Arg(1), Arg(2)>> \o [k \in 1..(MaxArgs - 2) |-> Arg(k + 2)]

\* C11: maxsizeof of a non-empty list of types is at least the size of every
\* listed type and is the size of one of them.
C11_MaxsizeofIsMaximum ==
    last.op = "maxsizeof" =>
        /\ \A i \in 1..Len(last.args) : last.ret >= sizeof(last.args[i])
        /\ \E i \in 1..Len(last.args) : last.ret = sizeof(last.args[i])

C11_Witness ==
    /\ last.op = "maxsizeof"
    /\ last.args = <<"Base1", "Base2", "Base1">>
    /\ last.ret = 40

\* The most recent operation is a move-assignment into an occupied slot.
Released == last.op = "move_assign" /\ last.prev # NoType

\* What a move-assignment does to release the destination's previous occupant.
ReleaseSteps ==
    IF Released
    THEN <<Ev("is_empty", last.dst, last.dst, "true", << >>),
           Ev("delete_obj", last.dst, last.dst, last.prev, << >>)>>
    ELSE << >>

\* The steps of the most recent operation that follow the release.
TransferSteps == SubSeq(log, Len(ReleaseSteps) + 1, Len(log))

\* C12: a move-assignment into an occupied destination first marks the
\* destination empty and destroys its previous occupant through the
\* destination's own LCM, before any clone_obj or clone_lcm step, and destroys
\* that occupant once only, whether the source is empty or not.
C12_ReleaseBeforeTransfer ==
    Released =>
        /\ Len(log) >= 2
        /\ SubSeq(log, 1, 2) = ReleaseSteps
        /\ \A i \in 1..Len(log) :
              /\ log[i].ev \in {"clone_obj", "clone_lcm", "ctor", "new_lcm"} => i > 2
              /\ (log[i].ev = "delete_obj" /\ log[i].slot = last.dst /\ last.src # last.dst)
                    => i = 2
        /\ ~dtorTwice

C12_Witness ==
    /\ Released
    /\ last.srcType = NoType
    /\ last.src # last.dst
    /\ Len(log) = 2
    /\ storage_obj[last.dst].st = "dead"

\* C13 as claimed: in a transfer the moved-from object is destroyed before the
\* source is marked empty.
C13_ClaimedOrder ==
    Transferred =>
        TransferSteps =
            <<Ev("clone_obj", last.dst, last.src, last.srcType, << >>),
              Ev("clone_lcm", last.dst, last.src, last.srcType, << >>),
              Ev("delete_obj", last.src, last.src, last.srcType, << >>),
              Ev("is_empty", last.src, last.src, "true", << >>),
              Ev("is_empty", last.dst, last.dst, "false", << >>)>>

\* C13 as amended: a transfer move-constructs the object in the destination,
\* clones the record, marks the source empty, destroys the moved-from object
\* and only then marks the destination occupied.
C13_TransferOrder ==
    Transferred =>
        TransferSteps =
            <<Ev("clone_obj", last.dst, last.src, last.srcType, << >>),
              Ev("clone_lcm", last.dst, last.src, last.srcType, << >>),
              Ev("is_empty", last.src, last.src, "true", << >>),
              Ev("delete_obj", last.src, last.src, last.srcType, << >>),
              Ev("is_empty", last.dst, last.dst, "false", << >>)>>

C13_Witness ==
    /\ Transferred
    /\ last.op = "move_ctor"
    /\ Len(log) = 5
    /\ log[3].ev = "is_empty"
    /\ log[4].ev = "delete_obj"

\* C14: every delete_obj step comes right after the write that clears the
\* occupied flag of the slot whose object it destroys.
C14_FlagClearedBeforeDestroy ==
    \A i \in 1..Len(log) :
        log[i].ev = "delete_obj" =>
            /\ i > 1
            /\ log[i - 1] = Ev("is_empty", log[i].slot, log[i].slot, "true", << >>)

\* C15: in a transfer clone_obj, clone_lcm and the destruction of the
\* moved-from object are dispatched through the source's LCM and build the
\* source's concrete type; the destination's LCM is used only to release the
\* destination's previous occupant.
C15_DispatchThroughSource ==
    last.op \in MoveOps =>
        \A i \in 1..Len(log) :
            /\ log[i].ev \notin {"ctor", "new_lcm"}
            /\ log[i].ev \in {"clone_obj", "clone_lcm"} =>
                  /\ log[i].via = last.src
                  /\ log[i].slot = last.dst
                  /\ log[i].type = last.srcType
            /\ log[i].ev = "delete_obj" =>
                  IF Released /\ i = 2
                  THEN log[i] = Ev("delete_obj", last.dst, last.dst, last.prev, << >>)
                  ELSE log[i] = Ev("delete_obj", last.src, last.src, last.srcType, << >>)

C15_Witness ==
    /\ Transferred
    /\ Released
    /\ last.prev # last.srcType
    /\ Len(log) = 7
    /\ log[3].ev = "clone_obj"
    /\ log[3].via = last.src
    /\ log[3].type = last.srcType

\* C16: a transfer from an empty source performs no step but the release of
\* the destination's previous occupant and leaves both slots empty.
C16_EmptySourceTransfer ==
    (last.op \in MoveOps /\ last.srcType = NoType) =>
        /\ ~crashed
        /\ log = ReleaseSteps
        /\ is_empty[last.dst]
        /\ is_empty[last.src]
        /\ storage_obj[last.dst].st # "live"
        /\ storage_obj[last.src].st # "live"

C16_Witness ==
    /\ last.op = "move_ctor"
    /\ last.srcType = NoType
    /\ storage_lcm[last.src] # NoType
    /\ storage_lcm[last.dst] = NoType
    /\ is_empty[last.dst]
    /\ log = << >>

\* C17: emplace returns false when it has constructed an object in an empty
\* slot and false when it was refused by an occupied slot.
C17_ReturnNeverDistinguishes ==
    (last.op = "emplace" /\ ~crashed) =>
        /\ last.ret = "false"
        /\ ~is_empty[last.dst]
        /\ last.prev = NoType => Len(ObjectSteps) = 1
        /\ last.prev # NoType => Len(ObjectSteps) = 0

C17_Witness ==
    /\ last.op = "emplace"
    /\ last.prev = NoType
    /\ last.ret = "false"
    /\ Len(log) = 3
    /\ dynamic_type(Cur, last.dst) = last.te

\* C18: a self move-assignment leaves the slot empty; it destroys the object
\* of an occupied slot once and does nothing else.
C18_SelfMoveAssign ==
    (last.op = "move_assign" /\ last.src = last.dst) =>
        /\ ~crashed
        /\ is_empty[last.dst]
        /\ log = ReleaseSteps
        /\ storage_obj[last.dst].st # "live"
        /\ ~dtorTwice

C18_Witness ==
    /\ last.op = "move_assign"
    /\ last.src = last.dst
    /\ last.prev # NoType
    /\ storage_obj[last.dst].st = "dead"
    /\ Len(ObjectSteps) = 1

====
